---- MODULE Spec2Model ----
(***************************************************************************)
(* Model of the routing composables (app/composables/router.ts) and of the *)
(* auto-import module's regeneration cycle (imports/module.ts).            *)
(*                                                                         *)
(* Strings that the code inspects (URLs, paths) are sequences of one-      *)
(* character strings; file and template names are sequences of path        *)
(* segments.                                                               *)
(***************************************************************************)
EXTENDS Integers, Sequences, FiniteSets, TLC

VARIABLES
    server,        \* process.server (process.client is its negation)
    dev,           \* process.dev
    beforeEach,    \* router.beforeEach guards registered by navigateTo
    tasks,         \* redirect() promise chains, in creation order
    hasEvent,      \* nuxtApp.ssrContext && nuxtApp.ssrContext.event
    last,          \* the last composable call: inputs, outcome, effects, state before it
    mw,            \* nuxtApp._middleware: [global, named]
    regLog,        \* history of the addRouteMiddleware calls
    beforeResolve, \* router.beforeResolve guards registered by setPageLayout
    routeLayout,   \* useRoute().meta.layout of the current route
    layoutState,   \* useState('_layout').value
    fired,         \* per setPageLayout guard: how many navigations it has acted on
    scan,          \* options.scan
    phase,         \* position of the module's setup()
    runs,          \* the regenerateImports invocations, in start order
    imports,       \* ctx.dynamicImports (the array the runs share)
    combined,      \* the import context's cache the templates read: [valid]
    rendered,      \* whether the imports templates have been rendered: [done]
    nEvents,       \* host events delivered so far
    lastEvent      \* the host event handled by the last step, and what its handlers did

navVars == <<server, dev, hasEvent, beforeEach, tasks, last>>
mwVars == <<mw, regLog>>
layoutVars == <<beforeResolve, routeLayout, layoutState, fired>>
importVars == <<scan, phase, runs, imports, combined, rendered, nEvents, lastEvent>>
vars == <<navVars, mwVars, layoutVars, importVars>>

----------------------------------------------------------------------------
\* Bounds of the model

MaxGuards == 1
MaxTasks == 1
MaxRegs == 3
MaxLayoutCalls == 3
MaxEvents == 2

----------------------------------------------------------------------------
\* Strings

RECURSIVE LeadLen(_, _)
\* Length of the longest prefix of s whose characters are all in cls.
LeadLen(s, cls) ==
    IF s = <<>> \/ Head(s) \notin cls THEN 0 ELSE 1 + LeadLen(Tail(s), cls)

Drop(s, n) == SubSeq(s, n + 1, Len(s))
Take(s, n) == SubSeq(s, 1, n)

ProtoChars == {"a", "b", "c", "h", "i", "p", "r", "s", "t", "w", "+", ".", "-", " "}
Slashes == {"/", "\\"}

\* ufo's PROTOCOL_REGEX  ^[\s\w\0+.-]{2,}:([/\\]{2})?
MatchesProtocol(s) ==
    LET n == LeadLen(s, ProtoChars)
    IN  n >= 2 /\ Len(s) > n /\ s[n + 1] = ":"

\* ufo's PROTOCOL_RELATIVE_REGEX  ^([/\\]\s*){2,}[^/\\]
MatchesProtocolRelative(s) ==
    LET n == LeadLen(s, Slashes)
    IN  n >= 2 /\ Len(s) > n

hasProtocol(s, acceptRelative) ==
    MatchesProtocol(s) \/ (acceptRelative /\ MatchesProtocolRelative(s))

\* parseURL(s).protocol: the scheme with its colon when "//" follows it, else "".
parseURLProtocol(s) ==
    LET n == LeadLen(s, ProtoChars \ {" "})
    IN  IF n >= 2 /\ Len(s) >= n + 3 /\ s[n + 1] = ":" /\ s[n + 2] = "/" /\ s[n + 3] = "/"
        THEN Take(s, n + 1)
        ELSE <<>>

ScriptProtocol == <<"s", "c", "r", "i", "p", "t", ":">>

\* ufo's joinURL(base, input) for one input segment.
joinURL(base, input) ==
    IF input = <<>> \/ input = <<"/">> THEN base
    ELSE IF base = <<>> THEN input
    ELSE (IF base[Len(base)] = "/" THEN base ELSE base \o <<"/">>)
         \o (IF Head(input) = "/" THEN Tail(input)
             ELSE IF Len(input) >= 2 /\ input[1] = "." /\ input[2] = "/" THEN Drop(input, 2)
             ELSE input)

----------------------------------------------------------------------------
\* Inputs of navigateTo

Root == <<"/">>
PathA == <<"/", "a">>
PathB == <<"/", "b">>
UrlRelative == <<"/", "/", "h">>
UrlWs == <<"w", "s", ":", "/", "/", "h">>
UrlScript == ScriptProtocol \o <<"/", "/", "h">>

\* A target: null/undefined, a string, or a route location object (path is <<>>
\* when the object has none); resolved is router.resolve(to).fullPath.
Target(kind, path, resolved) == [kind |-> kind, path |-> path, resolved |-> resolved]

Targets ==
    { Target("nullish", <<>>, Root),
      Target("string", PathA, PathA),
      Target("string", UrlRelative, UrlRelative),
      Target("string", UrlWs, UrlWs),
      Target("string", UrlScript, UrlScript),
      Target("object", <<>>, PathB) }

\* useRuntimeConfig().app.baseURL
baseURL == <<"/", "x", "/">>

NavOptions == [external : BOOLEAN, replace : BOOLEAN]

NoTarget == Target("none", <<>>, <<>>)
NoOptions == [external |-> FALSE, replace |-> FALSE]
Errs == {"undefined", "", "message"}

\* The record of a composable call.
Call(op, to, opts, ctxOK, flag, err, outcome, effects, pre) ==
    [op |-> op, to |-> to, opts |-> opts, ctxOK |-> ctxOK, flag |-> flag,
     err |-> err, outcome |-> outcome, effects |-> effects, pre |-> pre]

NoCall == Call("none", NoTarget, NoOptions, TRUE, FALSE, "undefined", "none", <<>>, <<0, 0, 0>>)

----------------------------------------------------------------------------
\* isProcessingMiddleware, navigateTo, abortNavigation

\* ctxOK: useNuxtApp() finds the app instance (it throws when it does not);
\* flag: nuxtApp._processingMiddleware is set.
isProcessingMiddleware(ctxOK, flag) ==
    IF ctxOK THEN flag ELSE TRUE

\* `if (!to) { to = '/' }`
normalizeTo(to) ==
    IF to.kind = "nullish" \/ (to.kind = "string" /\ to.path = <<>>)
    THEN Target("string", Root, Root)
    ELSE to

toPathOf(to) ==
    LET t == normalizeTo(to)
    IN  IF t.kind = "string" THEN t.path
        ELSE IF t.path = <<>> THEN Root ELSE t.path

\* Variant: hasProtocol called without acceptRelative.
isExternal_NoRelative(to, opts) ==
    opts.external \/ hasProtocol(toPathOf(to), FALSE)

isExternal(to, opts) ==
    opts.external \/ hasProtocol(toPathOf(to), TRUE)

\* The two checks that throw before anything else is done.
navigateToThrows(to, opts) ==
    LET ext == isExternal(to, opts)
    IN  IF ext /\ ~opts.external THEN "throwExternal"
        ELSE IF ext /\ parseURLProtocol(toPathOf(to)) = ScriptProtocol THEN "throwScript"
        ELSE "none"

fullPathOf(to, opts) ==
    LET t == normalizeTo(to)
    IN  IF t.kind = "string" \/ isExternal(to, opts) THEN toPathOf(to)
        ELSE IF t.resolved = <<>> THEN Root ELSE t.resolved

redirectLocation(to, opts) ==
    IF isExternal(to, opts) THEN toPathOf(to) ELSE joinURL(baseURL, fullPathOf(to, opts))

\* How a call of navigateTo ends.  hasLocation: the runtime has a `location`
\* global (always on the client; on a server runtime reading it may throw).
navigateToTerminal(to, opts, ctxOK, flag, hasLocation) ==
    LET inMiddleware == isProcessingMiddleware(ctxOK, flag)
        ext == isExternal(to, opts)
        thrown == navigateToThrows(to, opts)
    IN  IF thrown # "none" THEN thrown
        ELSE IF ~server /\ ~ext /\ inMiddleware THEN "returnRaw"
        ELSE IF ~ctxOK THEN "throwNoInstance"
        ELSE IF server /\ hasEvent /\ ~ext /\ inMiddleware THEN "returnRawGuard"
        ELSE IF server /\ hasEvent THEN "redirect"
        ELSE IF ext /\ ~hasLocation THEN "throwNoLocation"
        ELSE IF ext /\ opts.replace THEN "locationReplace"
        ELSE IF ext THEN "locationHref"
        ELSE IF opts.replace THEN "routerReplace"
        ELSE "routerPush"

\* A redirect() chain: callHook('app:redirected'), then sendRedirect, then the value.
\* guard is 0 for a redirect made by navigateTo itself, else the index of the
\* beforeEach guard that made it; final is the route that guard was called with.
NewTask(location, inMiddleware, flag, guard, final) ==
    [location |-> location, inMiddleware |-> inMiddleware, flag |-> flag,
     guard |-> guard, final |-> final,
     pc |-> "hook", hooked |-> FALSE, sent |-> FALSE, result |-> "pending"]

NewGuard(to, opts, flag) ==
    [fullPath |-> fullPathOf(to, opts),
     location |-> redirectLocation(to, opts),
     inMiddleware |-> TRUE, flag |-> flag]

\* Variant: no return after the write to location, so the router is called too.
navigateToEffects_FallThrough(terminal, to) ==
    CASE terminal = "returnRawGuard" -> <<"router.beforeEach">>
      [] terminal = "redirect" -> <<"callHook app:redirected">>
      [] terminal = "locationReplace" -> <<"location.replace", "router.replace">>
      [] terminal = "locationHref" -> <<"location.href", "router.push">>
      [] terminal = "routerReplace" -> <<"router.replace">>
      [] terminal = "routerPush" -> <<"router.push">>
      [] OTHER -> <<>>

navigateToEffects(terminal, to) ==
    CASE terminal = "returnRawGuard" -> <<"router.beforeEach">>
      [] terminal = "redirect" -> <<"callHook app:redirected">>
      [] terminal = "locationReplace" -> <<"location.replace">>
      [] terminal = "locationHref" -> <<"location.href">>
      [] terminal = "routerReplace" -> <<"router.replace">>
      [] terminal = "routerPush" -> <<"router.push">>
      [] OTHER -> <<>>

NavigateToCall(to, opts, ctxOK, flag, hasLocation) ==
    LET terminal == navigateToTerminal(to, opts, ctxOK, flag, hasLocation)
        pre == <<Len(beforeEach), Len(tasks), 0>>
    IN  /\ terminal = "returnRawGuard" => Len(beforeEach) < MaxGuards
        /\ terminal = "redirect" => Len(tasks) < MaxTasks
        /\ beforeEach' = IF terminal = "returnRawGuard"
                         THEN Append(beforeEach, NewGuard(to, opts, flag))
                         ELSE beforeEach
        /\ tasks' = IF terminal = "redirect"
                    THEN Append(tasks, NewTask(redirectLocation(to, opts),
                                               isProcessingMiddleware(ctxOK, flag), flag,
                                               0, <<>>))
                    ELSE tasks
        /\ last' = Call("navigateTo", to, opts, ctxOK, flag, "undefined",
                        terminal, navigateToEffects(terminal, to), pre)
        /\ UNCHANGED <<server, dev, hasEvent>>

\* When the app instance is not available its _processingMiddleware flag cannot
\* be read: the call is made with the flag unset.
NavigateTo ==
    \E to \in Targets, opts \in NavOptions, ctxOK \in BOOLEAN :
        \E flag \in (IF ctxOK THEN BOOLEAN ELSE {FALSE}) :
            \E hasLocation \in (IF server /\ ~hasEvent THEN BOOLEAN ELSE {TRUE}) :
                /\ NavigateToCall(to, opts, ctxOK, flag, hasLocation)
                /\ UNCHANGED <<mwVars, layoutVars, importVars>>

Truthy(err) == err \notin {"undefined", ""}

\* Variant: the usage check is made in every build, not only in dev.
abortNavigationOutcome_AlwaysChecked(err, ctxOK, flag) ==
    IF ~isProcessingMiddleware(ctxOK, flag) THEN "throwUsage"
    ELSE IF Truthy(err) THEN "throwError"
    ELSE "returnFalse"

abortNavigationOutcome(err, ctxOK, flag) ==
    IF dev /\ ~isProcessingMiddleware(ctxOK, flag) THEN "throwUsage"
    ELSE IF Truthy(err) THEN "throwError"
    ELSE "returnFalse"

AbortNavigation ==
    \E err \in Errs, ctxOK \in BOOLEAN, flag \in BOOLEAN :
        /\ last' = Call("abortNavigation", NoTarget, NoOptions, ctxOK, flag, err,
                        abortNavigationOutcome(err, ctxOK, flag), <<>>,
                        <<Len(beforeEach), Len(tasks), 0>>)
        /\ UNCHANGED <<server, dev, hasEvent, beforeEach, tasks>>
        /\ UNCHANGED <<mwVars, layoutVars, importVars>>

\* Variant: the guard redirects on every navigation.
guardRedirects_Always(guard, final) ==
    TRUE

\* The guard `final => (final.fullPath === fullPath) ? redirect() : undefined`
guardRedirects(guard, final) ==
    final = guard.fullPath

\* The router calls beforeEach guard i with the route `final`.
RouterBeforeEach ==
    \E i \in 1..Len(beforeEach), final \in {Root, PathA, PathB} :
        /\ IF guardRedirects(beforeEach[i], final)
           THEN /\ Len(tasks) < MaxTasks
                /\ tasks' = Append(tasks, NewTask(beforeEach[i].location,
                                                  beforeEach[i].inMiddleware,
                                                  beforeEach[i].flag, i, final))
           ELSE UNCHANGED tasks
        /\ last' = Call("router.beforeEach", Target("route", final, final), NoOptions,
                        TRUE, FALSE, "undefined",
                        IF guardRedirects(beforeEach[i], final) THEN "redirect" ELSE "undefined",
                        IF guardRedirects(beforeEach[i], final)
                        THEN <<"callHook app:redirected">> ELSE <<>>,
                        <<Len(beforeEach), Len(tasks), i>>)
        /\ UNCHANGED <<server, dev, hasEvent, beforeEach>>
        /\ UNCHANGED <<mwVars, layoutVars, importVars>>

SetTask(i, t) == tasks' = [tasks EXCEPT ![i] = t]

\* The 'app:redirected' hook completes.
RedirectHookDone ==
    \E i \in 1..Len(tasks) :
        /\ tasks[i].pc = "hook"
        /\ SetTask(i, [tasks[i] EXCEPT !.pc = "send", !.hooked = TRUE])
        /\ last' = NoCall
        /\ UNCHANGED <<server, dev, hasEvent, beforeEach>>
        /\ UNCHANGED <<mwVars, layoutVars, importVars>>

\* `.then(() => sendRedirect(...))` runs once the hook's promise has resolved.
canSend(t) == t.pc = "send"

\* Variant: the chain ends with sendRedirect's value.
redirectValue_Undefined(inMiddleware) ==
    "undefined"

\* `.then(() => inMiddleware ? false : undefined)`
redirectValue(inMiddleware) ==
    IF inMiddleware THEN "false" ELSE "undefined"

\* sendRedirect(event, redirectLocation, code), then the chain's value.
RedirectSend ==
    \E i \in 1..Len(tasks) :
        /\ canSend(tasks[i])
        /\ ~tasks[i].sent
        /\ SetTask(i, [tasks[i] EXCEPT !.pc = "done", !.sent = TRUE,
                                       !.result = redirectValue(tasks[i].inMiddleware)])
        /\ last' = NoCall
        /\ UNCHANGED <<server, dev, hasEvent, beforeEach>>
        /\ UNCHANGED <<mwVars, layoutVars, importVars>>

----------------------------------------------------------------------------
\* addRouteMiddleware

Names == {"a", "b"}
Fns == {"f1", "f2"}

\* First argument: a name (string) or a middleware function.
FirstArgs == [type : {"string"}, v : Names] \cup [type : {"function"}, v : Fns]
SecondArgs == Fns \cup {"undefined"}

NoMiddleware == [global |-> <<>>, named |-> [n \in Names |-> "none"]]

\* Variant: a global middleware is put in front of the list.
addRouteMiddleware_Unshift(m, name, middleware, optGlobal) ==
    LET global == optGlobal \/ name.type # "string"
        fn == IF name.type # "string" THEN name.v ELSE middleware
    IN  IF fn = "undefined" THEN m
        ELSE IF global THEN [m EXCEPT !.global = <<fn>> \o m.global]
        ELSE [m EXCEPT !.named[name.v] = fn]

\* The value of nuxtApp._middleware after addRouteMiddleware(name, middleware,
\* { global: optGlobal }) is called with it being m.
addRouteMiddleware(m, name, middleware, optGlobal) ==
    LET global == optGlobal \/ name.type # "string"
        fn == IF name.type # "string" THEN name.v ELSE middleware
    IN  IF fn = "undefined" THEN m
        ELSE IF global THEN [m EXCEPT !.global = Append(m.global, fn)]
        ELSE [m EXCEPT !.named[name.v] = fn]

AddRouteMiddleware ==
    \E name \in FirstArgs, middleware \in SecondArgs, optGlobal \in BOOLEAN :
        /\ Len(regLog) < MaxRegs
        /\ mw' = addRouteMiddleware(mw, name, middleware, optGlobal)
        /\ regLog' = Append(regLog, [name |-> name, middleware |-> middleware,
                                     optGlobal |-> optGlobal])
        /\ UNCHANGED <<navVars, layoutVars, importVars>>

----------------------------------------------------------------------------
\* setPageLayout

Layouts == {"default", "admin"}

LayoutCall(op, layout, ctxOK, flag, hydrating, outcome, pre) ==
    [op |-> op, layout |-> layout, ctxOK |-> ctxOK, flag |-> flag,
     hydrating |-> hydrating, outcome |-> outcome, pre |-> pre]

NoLayoutCall == LayoutCall("none", "default", TRUE, FALSE, FALSE, "none", <<>>)

\* Whether setPageLayout registers its beforeResolve guard.
registersGuard(inMiddleware, hydrating) ==
    inMiddleware \/ server \/ hydrating

\* Whether setPageLayout assigns useRoute().meta.layout.
setsCurrentRoute(inMiddleware) ==
    ~inMiddleware

SetPageLayoutCall(layout, ctxOK, flag, hydrating) ==
    LET inMiddleware == isProcessingMiddleware(ctxOK, flag)
        pre == <<beforeResolve, routeLayout, layoutState>>
    IN  IF ~ctxOK
        THEN \* useNuxtApp() throws before anything is assigned
             /\ last' = LayoutCall("setPageLayout", layout, ctxOK, flag, hydrating,
                                   "throwNoInstance", pre)
             /\ UNCHANGED <<beforeResolve, routeLayout, layoutState, fired>>
        ELSE /\ registersGuard(inMiddleware, hydrating) => Len(fired) < MaxLayoutCalls
             /\ layoutState' = IF server THEN layout ELSE layoutState
             /\ IF registersGuard(inMiddleware, hydrating)
                THEN /\ beforeResolve' = Append(beforeResolve,
                                                [id |-> Len(fired) + 1, layout |-> layout])
                     /\ fired' = Append(fired, 0)
                ELSE UNCHANGED <<beforeResolve, fired>>
             /\ routeLayout' = IF setsCurrentRoute(inMiddleware) THEN layout
                               ELSE routeLayout
             /\ last' = LayoutCall("setPageLayout", layout, ctxOK, flag, hydrating,
                                   "returned", pre)

SetPageLayout ==
    \E layout \in Layouts, ctxOK \in BOOLEAN, flag \in BOOLEAN :
        \E hydrating \in (IF server THEN {FALSE} ELSE BOOLEAN) :
            /\ SetPageLayoutCall(layout, ctxOK, flag, hydrating)
            /\ UNCHANGED <<server, dev, hasEvent, beforeEach, tasks>>
            /\ UNCHANGED <<mwVars, importVars>>

\* Variant: the guard stays subscribed.
guardUnsubscribes_Never(g) == FALSE

\* The guard calls unsubscribe() in the invocation that assigns the layout.
guardUnsubscribes(g) == TRUE

RECURSIVE applyGuards(_, _)
\* to.meta.layout after the guards ran in order on a route whose own layout is l.
applyGuards(guards, l) ==
    IF guards = <<>> THEN l ELSE applyGuards(Tail(guards), Head(guards).layout)

\* The router resolves a navigation to a route whose meta.layout is destLayout: it
\* calls every registered beforeResolve guard with it, then makes it the current route.
ResolveNavigation ==
    \E destLayout \in Layouts \cup {"unset"} :
        /\ routeLayout' = applyGuards(beforeResolve, destLayout)
        /\ fired' = [i \in 1..Len(fired) |->
                        IF \E k \in 1..Len(beforeResolve) : beforeResolve[k].id = i
                        THEN fired[i] + 1 ELSE fired[i]]
        /\ beforeResolve' = SelectSeq(beforeResolve, LAMBDA g : ~guardUnsubscribes(g))
        /\ last' = LayoutCall("resolve", destLayout, TRUE, FALSE, FALSE, "resolved",
                              <<beforeResolve, routeLayout, layoutState>>)
        /\ UNCHANGED <<server, dev, hasEvent, beforeEach, tasks, layoutState>>
        /\ UNCHANGED <<mwVars, importVars>>

----------------------------------------------------------------------------
\* The auto-import module: regenerateImports and the hooks that call it

MaxRuns == MaxEvents + 2

\* Paths are relative to nuxt.options.srcDir.
composablesDirs == { <<"composables">>, <<"utils">> }

WatchPaths == { <<"composables">>, <<"composables", "a.ts">>, <<"pages", "x.vue">> }
WatchEvents == { "change", "addDir" }

\* What scanDirExports may find, and what the 'imports:extend' handlers append.
ScanResults == { <<"useA">>, <<"useA", "useB">> }
ExtendResults == { <<>>, <<"useM">> }

\* Template filenames, as path segments.
SetupTemplates == { <<"imports.mjs">>, <<"app.mjs">> }
DeclarationTemplates == { <<"imports.d.ts">>, <<"types", "imports.d.ts">> }

\* The sets of templates a host generation may report.
GeneratedSets ==
    { SetupTemplates \cup DeclarationTemplates,
      { <<"types", "imports.d.ts">> },
      { <<"imports.mjs">> },
      {} }

templatesRegistered ==
    IF phase = "ready" THEN SetupTemplates \cup DeclarationTemplates ELSE SetupTemplates

\* IMPORTS_TEMPLATE_RE = /\/imports\.(?:d\.ts|mjs)$/ tested on template.filename
isImportsTemplate(filename) ==
    /\ Len(filename) >= 2
    /\ filename[Len(filename)] \in {"imports.d.ts", "imports.mjs"}

\* started: the handler called regenerateImports; restarted: 'restart' was called.
Event(kind, arg, started, restarted) ==
    [kind |-> kind, arg |-> arg, started |-> started, restarted |-> restarted]
NoEvent == Event("none", <<>>, FALSE, FALSE)

\* ctx.invalidate() drops the cache; ctx.getImports() rebuilds it from the list.
Invalid == [valid |-> FALSE]
NotRendered == [done |-> FALSE]

NewRun(cause, pc, log) == [cause |-> cause, pc |-> pc, log |-> log, child |-> 0]

\* Variant: the scan is started whatever options.scan says.
startRun_AlwaysScan(cause) ==
    NewRun(cause, "scanning", <<"clear">>)

\* regenerateImports() up to its first suspension: the list is cleared, then either
\* the scan is started or, without options.scan, the extension hook is called.
startRun(cause) ==
    IF scan THEN NewRun(cause, "scanning", <<"clear">>)
    ELSE NewRun(cause, "extending", <<"clear", "extend">>)

StartRegenerate(cause) ==
    /\ Len(runs) < MaxRuns
    /\ runs' = Append(runs, startRun(cause))
    /\ imports' = <<>>

SetRun(r, run) == runs' = [runs EXCEPT ![r] = run]

\* `await regenerateImports()` in setup(), before the hooks are registered.
SetupRegenerate ==
    /\ phase = "setup"
    /\ StartRegenerate("setup")
    /\ phase' = "setupWait"
    /\ UNCHANGED <<scan, combined, rendered, nEvents, lastEvent>>
    /\ UNCHANGED <<navVars, mwVars, layoutVars>>

\* addDeclarationTemplates and the two nuxt.hook registrations.
SetupFinish ==
    /\ phase = "setupWait"
    /\ runs[1].pc = "done"
    /\ phase' = "ready"
    /\ UNCHANGED <<scan, runs, imports, combined, rendered, nEvents, lastEvent>>
    /\ UNCHANGED <<navVars, mwVars, layoutVars>>

\* scanDirExports resolves: the scanned entries are pushed and the hook is called.
ScanDone ==
    \E r \in 1..Len(runs), scanned \in ScanResults :
        /\ runs[r].pc = "scanning"
        /\ imports' = imports \o scanned
        /\ SetRun(r, [runs[r] EXCEPT !.pc = "extending",
                                     !.log = runs[r].log \o <<"scan", "extend">>])
        /\ lastEvent' = NoEvent
        /\ UNCHANGED <<scan, phase, combined, rendered, nEvents>>
        /\ UNCHANGED <<navVars, mwVars, layoutVars>>

\* The 'imports:extend' handlers have run on the list; the callback returns it.
ExtendDone ==
    \E r \in 1..Len(runs), extra \in ExtendResults :
        /\ runs[r].pc = "extending"
        /\ imports' = imports \o extra
        /\ SetRun(r, [runs[r] EXCEPT !.pc = "returning"])
        /\ lastEvent' = NoEvent
        /\ UNCHANGED <<scan, phase, combined, rendered, nEvents>>
        /\ UNCHANGED <<navVars, mwVars, layoutVars>>

\* modifyDynamicImports stores the returned list and invalidates the context's cache.
Persist ==
    \E r \in 1..Len(runs) :
        /\ runs[r].pc = "returning"
        /\ combined' = Invalid
        /\ SetRun(r, [runs[r] EXCEPT !.pc = "persisted",
                                     !.log = runs[r].log \o <<"persist">>])
        /\ lastEvent' = NoEvent
        /\ UNCHANGED <<scan, phase, imports, rendered, nEvents>>
        /\ UNCHANGED <<navVars, mwVars, layoutVars>>

\* The templates updateTemplates({ filter }) renders, which are those it passes to
\* the 'app:templatesGenerated' hook.
updateTemplatesSelection ==
    { t \in templatesRegistered : isImportsTemplate(t) }

\* Variant: regenerate whenever any template was generated.
templatesGeneratedTriggers_Any(templates) ==
    templates # {}

\* The 'app:templatesGenerated' handler: regenerate when a non-imports template
\* was generated.
templatesGeneratedTriggers(templates) ==
    \E t \in templates : ~isImportsTemplate(t)

\* `updateTemplates({ filter: isImportsTemplate })` is called: the selected templates
\* are rendered from the context's imports, then 'app:templatesGenerated' is called
\* with them (its handler exists once setup has registered it).
UpdateTemplates ==
    \E r \in 1..Len(runs) :
        /\ runs[r].pc = "persisted"
        /\ LET selection == updateTemplatesSelection
               nested == phase = "ready" /\ templatesGeneratedTriggers(selection)
           IN  /\ IF selection = {}
                  THEN UNCHANGED <<combined, rendered>>
                  ELSE /\ combined' = [valid |-> TRUE]
                       /\ rendered' = [done |-> TRUE]
               /\ IF nested
                  THEN /\ Len(runs) < MaxRuns
                       /\ runs' = Append([runs EXCEPT ![r] =
                                             [@ EXCEPT !.pc = "updating",
                                                       !.log = @ \o <<"render">>,
                                                       !.child = Len(runs) + 1]],
                                         startRun("regenerate"))
                       /\ imports' = <<>>
                  ELSE /\ SetRun(r, [runs[r] EXCEPT !.pc = "updating",
                                                    !.log = runs[r].log \o <<"render">>])
                       /\ UNCHANGED imports
        /\ lastEvent' = NoEvent
        /\ UNCHANGED <<scan, phase, nEvents>>
        /\ UNCHANGED <<navVars, mwVars, layoutVars>>

\* The promise of updateTemplates resolves, which it does once the handlers of
\* 'app:templatesGenerated' have: regenerateImports() is over.
UpdateDone ==
    \E r \in 1..Len(runs) :
        /\ runs[r].pc = "updating"
        /\ runs[r].child # 0 => runs[runs[r].child].pc = "done"
        /\ SetRun(r, [runs[r] EXCEPT !.pc = "done"])
        /\ lastEvent' = NoEvent
        /\ UNCHANGED <<scan, phase, imports, combined, rendered, nEvents>>
        /\ UNCHANGED <<navVars, mwVars, layoutVars>>

underComposablesDir(path) ==
    \E dir \in composablesDirs :
        path = dir \/ (Len(path) > Len(dir) /\ Take(path, Len(dir)) = dir)

\* The second 'builder:watch' handler.
builderWatchTriggers(path) ==
    scan /\ underComposablesDir(path)

\* The first 'builder:watch' handler (registered only with options.scan).
builderWatchRestarts(event, path) ==
    scan /\ event \in {"addDir", "unlinkDir"} /\ path \in composablesDirs

BuilderWatch ==
    \E event \in WatchEvents, path \in WatchPaths :
        /\ phase = "ready"
        /\ nEvents < MaxEvents
        /\ nEvents' = nEvents + 1
        /\ IF builderWatchTriggers(path)
           THEN StartRegenerate("builder:watch")
           ELSE UNCHANGED <<runs, imports>>
        /\ lastEvent' = Event("builder:watch", path, Len(runs') > Len(runs),
                              builderWatchRestarts(event, path))
        /\ UNCHANGED <<scan, phase, combined, rendered>>
        /\ UNCHANGED <<navVars, mwVars, layoutVars>>

\* The host generated some of the registered templates (not through regenerateImports).
TemplatesGenerated ==
    \E templates \in GeneratedSets :
        /\ phase = "ready"
        /\ nEvents < MaxEvents
        /\ nEvents' = nEvents + 1
        /\ IF templatesGeneratedTriggers(templates)
           THEN StartRegenerate("app:templatesGenerated")
           ELSE UNCHANGED <<runs, imports>>
        /\ lastEvent' = Event("app:templatesGenerated", templates,
                              Len(runs') > Len(runs), FALSE)
        /\ UNCHANGED <<scan, phase, combined, rendered>>
        /\ UNCHANGED <<navVars, mwVars, layoutVars>>


----------------------------------------------------------------------------
\* Initial states and specifications

NavIdle ==
    /\ dev = FALSE
    /\ hasEvent = FALSE
    /\ beforeEach = <<>>
    /\ tasks = <<>>

MwIdle ==
    /\ mw = NoMiddleware
    /\ regLog = <<>>

LayoutIdle ==
    /\ beforeResolve = <<>>
    /\ routeLayout = "unset"
    /\ layoutState = "unset"
    /\ fired = <<>>

ImportsIdle ==
    /\ scan = TRUE
    /\ phase = "setup"
    /\ runs = <<>>
    /\ imports = <<>>
    /\ combined = Invalid
    /\ rendered = NotRendered
    /\ nEvents = 0
    /\ lastEvent = NoEvent

\* navigateTo, abortNavigation and the redirects they start.
Init ==
    /\ server \in BOOLEAN
    /\ dev \in BOOLEAN
    /\ hasEvent \in (IF server THEN BOOLEAN ELSE {FALSE})
    /\ beforeEach = <<>>
    /\ tasks = <<>>
    /\ last = NoCall
    /\ MwIdle /\ LayoutIdle /\ ImportsIdle

Next ==
    \/ NavigateTo
    \/ AbortNavigation
    \/ RouterBeforeEach
    \/ RedirectHookDone
    \/ RedirectSend

Spec == Init /\ [][Next]_vars

\* addRouteMiddleware
MwInit ==
    /\ server = FALSE /\ NavIdle /\ last = NoCall
    /\ MwIdle /\ LayoutIdle /\ ImportsIdle

MwNext == AddRouteMiddleware

MwSpec == MwInit /\ [][MwNext]_vars

\* setPageLayout and the navigations its guards act on
LayoutInit ==
    /\ server \in BOOLEAN /\ NavIdle /\ last = NoLayoutCall
    /\ MwIdle /\ LayoutIdle /\ ImportsIdle

LayoutNext ==
    \/ SetPageLayout
    \/ ResolveNavigation

LayoutSpec == LayoutInit /\ [][LayoutNext]_vars

\* The auto-import module
ImportsInit ==
    /\ server = FALSE /\ NavIdle /\ last = NoCall
    /\ MwIdle /\ LayoutIdle
    /\ scan \in BOOLEAN
    /\ phase = "setup"
    /\ runs = <<>>
    /\ imports = <<>>
    /\ combined = Invalid
    /\ rendered = NotRendered
    /\ nEvents = 0
    /\ lastEvent = NoEvent

RunStep ==
    \/ ScanDone
    \/ ExtendDone
    \/ Persist
    \/ UpdateTemplates
    \/ UpdateDone

ImportsNext ==
    \/ SetupRegenerate
    \/ SetupFinish
    \/ RunStep
    \/ BuilderWatch
    \/ TemplatesGenerated

ImportsSpec == ImportsInit /\ [][ImportsNext]_vars

\* Started work is resumed by the event loop: scans, hooks and awaits complete.
ImportsFairSpec ==
    ImportsSpec /\ WF_vars(SetupRegenerate) /\ WF_vars(SetupFinish) /\ WF_vars(RunStep)

----------------------------------------------------------------------------
\* Properties

IsPrefix(a, b) == Len(a) <= Len(b) /\ SubSeq(b, 1, Len(a)) = a

NavThrows == {"throwExternal", "throwScript", "throwNoInstance", "throwNoLocation"}

NewGuards == Len(beforeEach) - last.pre[1]
NewTasks == Len(tasks) - last.pre[2]

\* The target of the last navigateTo call is internal: no protocol, not
\* protocol-relative, and options.external is not set.
LastTargetInternal ==
    /\ ~last.opts.external
    /\ last.to.path \notin {UrlRelative, UrlWs, UrlScript}

\* C1: navigateTo with a target whose path has a protocol or is protocol-relative,
\* and without options.external, throws; that call registers no guard, starts no
\* redirect (no 'app:redirected', no HTTP redirect), calls neither router.push nor
\* router.replace and writes nothing to location, on server and client, inside and
\* outside middleware.
C1_ExternalThrowsFirst ==
    (/\ last.op = "navigateTo"
     /\ last.to.path \in {UrlRelative, UrlWs, UrlScript}
     /\ ~last.opts.external)
    => /\ last.outcome = "throwExternal"
       /\ last.effects = <<>>
       /\ NewGuards = 0
       /\ NewTasks = 0

C1_Witness ==
    /\ last.op = "navigateTo"
    /\ last.to.path = UrlRelative
    /\ ~last.opts.external
    /\ server /\ hasEvent /\ last.ctxOK /\ last.flag
    /\ Len(beforeEach) = 1
    /\ last.outcome = "throwExternal"

\* C2 as stated: abortNavigation called while no route middleware is being processed
\* throws, in dev and in production, with or without an error argument.
C2_ThrowsOutsideMiddleware ==
    (last.op = "abortNavigation" /\ ~last.flag)
    => last.outcome \in {"throwUsage", "throwError"}

\* C2 amended: called while no route middleware is being processed, abortNavigation
\* throws the usage error in a dev build when the app instance is reachable, whatever
\* the error argument; in a production build, or when the app instance cannot be
\* reached, it throws only when a truthy error argument is passed, and otherwise
\* returns false.
C2_ThrowsOutsideMiddlewareInDev ==
    (last.op = "abortNavigation" /\ ~last.flag)
    => IF dev /\ last.ctxOK THEN last.outcome = "throwUsage"
       ELSE IF last.err \in {"message"} THEN last.outcome = "throwError"
       ELSE last.outcome = "returnFalse"

C2_Witness ==
    /\ last.op = "abortNavigation"
    /\ ~last.flag /\ last.ctxOK /\ dev
    /\ last.err = "undefined"
    /\ last.outcome = "throwUsage"

\* What a navigateTo call that ends in `terminal` has done, and nothing more.
EndsIn(terminal, effects, guards, newTasks) ==
    /\ last.outcome = terminal
    /\ last.effects = effects
    /\ NewGuards = guards
    /\ NewTasks = newTasks

FiveTerminals ==
    \/ EndsIn("returnRaw", <<>>, 0, 0)
    \/ EndsIn("returnRawGuard", <<"router.beforeEach">>, 1, 0)
    \/ EndsIn("redirect", <<"callHook app:redirected">>, 0, 1)
    \/ EndsIn("locationHref", <<"location.href">>, 0, 0)
    \/ EndsIn("routerPush", <<"router.push">>, 0, 0)
    \/ EndsIn("routerReplace", <<"router.replace">>, 0, 0)

\* C3 as stated: a navigateTo call that does not throw ends in exactly one of:
\* returning the raw target, an HTTP redirect, setting location.href, router.push,
\* router.replace.
C3_FiveTerminalActions ==
    (last.op = "navigateTo" /\ last.outcome \notin NavThrows) => FiveTerminals

\* C3 amended: a navigateTo call that does not throw ends in exactly one of six
\* terminal actions: the five above, or calling location.replace (an external target
\* with options.replace when no HTTP redirect is issued).
C3_SixTerminalActions ==
    (last.op = "navigateTo" /\ last.outcome \notin NavThrows)
    => \/ FiveTerminals
       \/ /\ EndsIn("locationReplace", <<"location.replace">>, 0, 0)
          /\ last.opts.external /\ last.opts.replace

C3_Witness ==
    /\ last.op = "navigateTo"
    /\ last.outcome = "locationReplace"
    /\ last.to.path = UrlWs
    /\ ~server

ExpectedLog ==
    IF scan THEN <<"clear", "scan", "extend", "persist", "render">>
    ELSE <<"clear", "extend", "persist", "render">>

\* C4: every run of regenerateImports clears the list, then (only with options.scan)
\* scans and appends, then calls 'imports:extend', then persists the list, then
\* re-renders the imports templates, each step once and in this order; the templates
\* are not rendered while the run still waits for its scan or its extension hook.
C4_StepsInOrder ==
    \A r \in 1..Len(runs) :
        /\ IsPrefix(runs[r].log, ExpectedLog)
        /\ runs[r].pc \in {"updating", "done"} <=> runs[r].log = ExpectedLog
        /\ runs[r].pc \in {"scanning", "extending", "returning"}
              => (\A k \in 1..Len(runs[r].log) : runs[r].log[k] \notin {"persist", "render"})
        /\ runs[r].pc = "persisted" => runs[r].log[Len(runs[r].log)] = "persist"

C4_Witness ==
    /\ Len(runs) >= 2
    /\ runs[2].cause = "builder:watch"
    /\ runs[2].pc = "done"
    /\ runs[2].log = <<"clear", "scan", "extend", "persist", "render">>
    /\ rendered.done

IsGlobalRegistration(e) ==
    e.name.type = "function" \/ (e.optGlobal /\ e.middleware # "undefined")

IsNamedRegistration(e) ==
    e.name.type = "string" /\ ~e.optGlobal /\ e.middleware # "undefined"

RegisteredMiddleware(e) ==
    IF e.name.type = "function" THEN e.name.v ELSE e.middleware

GlobalsOf(log) ==
    LET g == SelectSeq(log, IsGlobalRegistration)
    IN  [i \in 1..Len(g) |-> RegisteredMiddleware(g[i])]

LatestNamed(log, n) ==
    LET idx == { i \in 1..Len(log) : IsNamedRegistration(log[i]) /\ log[i].name.v = n }
    IN  IF idx = {} THEN "none"
        ELSE log[CHOOSE i \in idx : \A j \in idx : j <= i].middleware

\* C5: after any sequence of addRouteMiddleware calls the global list holds exactly
\* the middlewares of the global registrations (a function as first argument, or a
\* name with options.global) in call order, and the named mapping holds for each name
\* the middleware of the latest non-global registration under it; global
\* registrations leave the named mapping alone.
C5_RegistryMatchesCalls ==
    /\ mw.global = GlobalsOf(regLog)
    /\ \A n \in Names : mw.named[n] = LatestNamed(regLog, n)

C5_Witness ==
    /\ Len(regLog) = 3
    /\ regLog[1].name.type = "function"
    /\ regLog[2].name.type = "string" /\ regLog[2].optGlobal /\ regLog[2].middleware = "f2"
    /\ regLog[3].name = regLog[2].name /\ ~regLog[3].optGlobal /\ regLog[3].middleware = "f1"
    /\ Len(mw.global) = 2
    /\ mw.named[regLog[3].name.v] = "f1"

\* C6: inside a route middleware abortNavigation without an error argument returns
\* false and throws nothing; the promise of an HTTP redirect that navigateTo issued
\* from within middleware resolves to false, and outside middleware to undefined.
C6_FalseInsideMiddleware ==
    /\ (last.op = "abortNavigation" /\ last.flag /\ last.err = "undefined")
          => last.outcome = "returnFalse"
    /\ \A i \in 1..Len(tasks) :
          tasks[i].pc = "done"
             => tasks[i].result = (IF tasks[i].flag THEN "false" ELSE "undefined")

C6_Witness ==
    /\ last.op = "abortNavigation" /\ last.flag /\ last.err = "undefined"
    /\ last.outcome = "returnFalse"
    /\ dev
    /\ \E i \in 1..Len(tasks) :
          tasks[i].pc = "done" /\ tasks[i].flag /\ tasks[i].guard = 0
          /\ tasks[i].result = "false"

EndsWithImports(filename) ==
    /\ Len(filename) >= 2
    /\ filename[Len(filename)] \in {"imports.d.ts", "imports.mjs"}

Quiescent ==
    /\ phase = "ready"
    /\ \A r \in 1..Len(runs) : runs[r].pc = "done"

RegenerationPending ==
    \E r \in 1..Len(runs) : runs[r].pc # "done"

NoSelfFeeding ==
    /\ lastEvent.kind = "app:templatesGenerated"
          => (lastEvent.started <=> \E t \in lastEvent.arg : ~EndsWithImports(t))
    /\ \A r \in 1..Len(runs) : runs[r].cause # "regenerate"

\* C7: an 'app:templatesGenerated' event starts regenerateImports exactly when one of
\* its templates is not an imports template (a filename ending in /imports.d.ts or
\* /imports.mjs); the event a regeneration causes itself never starts another one; a
\* pending regeneration is followed by a state in which none is pending.
C7_NoSelfFeeding ==
    /\ []NoSelfFeeding
    /\ RegenerationPending ~> Quiescent

C7_Witness ==
    /\ lastEvent.kind = "app:templatesGenerated"
    /\ lastEvent.started
    /\ <<"types", "imports.d.ts">> \in lastEvent.arg
    /\ Len(runs) = 3
    /\ runs[2].cause = "app:templatesGenerated"
    /\ runs[2].pc = "done"
    /\ rendered.done

\* The fullPath navigateTo compares with: the string itself, or what the router
\* resolves the location object to.
TargetFullPath(to) ==
    IF to.kind = "nullish" THEN Root
    ELSE IF to.kind = "string" THEN to.path
    ELSE to.resolved

\* C8: on the server with a request event, navigateTo inside middleware with an
\* internal target starts no redirect in that call: it returns the raw target and
\* registers a guard for the target's fullPath.  That guard starts the redirect only
\* when it is called with a route whose fullPath equals the target's, and then to the
\* target's location.  No redirect is sent before 'app:redirected' has completed.
C8_DeferredRedirect ==
    /\ (/\ last.op = "navigateTo"
        /\ server /\ hasEvent /\ last.ctxOK /\ last.flag
        /\ LastTargetInternal)
       => /\ last.outcome = "returnRawGuard"
          /\ NewTasks = 0
          /\ NewGuards = 1
          /\ beforeEach[Len(beforeEach)].fullPath = TargetFullPath(last.to)
          /\ beforeEach[Len(beforeEach)].location
                = <<"/", "x">> \o TargetFullPath(last.to)
    /\ (last.op = "router.beforeEach"
        /\ last.to.path # beforeEach[last.pre[3]].fullPath)
       => NewTasks = 0
    /\ \A i \in 1..Len(tasks) :
          /\ tasks[i].guard # 0
                => /\ tasks[i].final = beforeEach[tasks[i].guard].fullPath
                   /\ tasks[i].location = beforeEach[tasks[i].guard].location
          /\ tasks[i].sent => tasks[i].hooked

C8_Witness ==
    /\ Len(beforeEach) = 1
    /\ beforeEach[1].fullPath = PathB
    /\ \E i \in 1..Len(tasks) :
          /\ tasks[i].guard = 1
          /\ tasks[i].sent
          /\ tasks[i].location = <<"/", "x", "/", "b">>

C8_WitnessRedirectedFurther ==
    /\ last.op = "router.beforeEach"
    /\ beforeEach[1].fullPath = PathA
    /\ last.to.path = PathB
    /\ tasks = <<>>

Occurrences(e, list) == Cardinality({ k \in 1..Len(list) : list[k] = e })

\* C9: when runs of regenerateImports overlapped, then once all of them have finished
\* the dynamic import list is that of a single run: no scanned export appears twice.
C9_SingleRunResult ==
    (scan /\ Len(runs) >= 2 /\ \A r \in 1..Len(runs) : runs[r].pc = "done")
    => \A e \in {"useA", "useB"} : Occurrences(e, imports) <= 1

LastGuardLayout(guards, l) ==
    IF guards = <<>> THEN l ELSE guards[Len(guards)].layout

\* C10: setPageLayout inside a route middleware leaves the current route's
\* meta.layout alone and registers a beforeResolve guard; a guard assigns its layout to
\* the route of the next resolved navigation and is unsubscribed by it, so it acts on at
\* most one navigation and later ones get their own layout.  Outside middleware, on
\* the client and not hydrating, setPageLayout assigns the current route's
\* meta.layout and registers no guard.
C10_LayoutGuardActsOnce ==
    /\ (last.op = "setPageLayout" /\ last.ctxOK /\ last.flag)
       => /\ routeLayout = last.pre[2]
          /\ Len(beforeResolve) = Len(last.pre[1]) + 1
          /\ beforeResolve[Len(beforeResolve)].layout = last.layout
    /\ (last.op = "setPageLayout" /\ last.ctxOK /\ ~last.flag /\ ~server /\ ~last.hydrating)
       => /\ routeLayout = last.layout
          /\ beforeResolve = last.pre[1]
    /\ last.op = "resolve"
       => /\ routeLayout = LastGuardLayout(last.pre[1], last.layout)
          /\ beforeResolve = <<>>
    /\ \A i \in 1..Len(fired) : fired[i] <= 1
    /\ \A k \in 1..Len(beforeResolve) : fired[beforeResolve[k].id] = 0

C10_Witness ==
    /\ last.op = "resolve"
    /\ last.pre[1] = <<>>
    /\ last.layout = "default"
    /\ routeLayout = "default"
    /\ \E i \in 1..Len(fired) : fired[i] = 1

====
